---- MODULE Spec2Model ----
(***************************************************************************)
(* A model of p, a command-line store of tagged prompts: the tag           *)
(* normalizer, the terminal editor session, the SQLite prompt store and    *)
(* the add / edit / delete / import / list commands built on them.         *)
(*                                                                         *)
(* Strings are sequences of one-character strings, so that trimming,       *)
(* splitting, joining and byte-order comparison are computed and not       *)
(* assumed.                                                                *)
(***************************************************************************)
EXTENDS Integers, Sequences, FiniteSets, TLC

VARIABLES
    store,   \* the rows of the prompts table: a set of [id, name, prompt, tags]
    seq,     \* the AUTOINCREMENT counter of the prompts table (largest id ever given)
    last,    \* what the last finished command was given and what it returned
    ed,      \* the call in progress and its position: the terminal editor session
             \* (the editorModel), the external editor call, or an edit command
    fn       \* a pure function under test: its input and its outputs

vars == <<store, seq, last, ed, fn>>

(***************************************************************************)
(* Bounds of the model.                                                    *)
(***************************************************************************)
MaxTagLen == 4      \* longest tag string given to normalizeTags on its own
MaxBuf == 3         \* longest text the editor buffer is let grow to
MaxContent == 2     \* longest text an editor session of a command is let grow to
MaxIds == 3         \* rows the prompts table is let insert in all

(***************************************************************************)
(* Strings (Go's strings package, as far as the program uses it).          *)
(***************************************************************************)
\* The byte of a character: Go compares strings byte by byte.
Code(c) ==
    CASE c = "\t" -> 9
      [] c = "\n" -> 10
      [] c = " " -> 32
      [] c = "," -> 44
      [] c = ":" -> 58
      [] c = "A" -> 65
      [] c = "B" -> 66
      [] c = "D" -> 68
      [] c = "N" -> 78
      [] c = "a" -> 97
      [] c = "b" -> 98
      [] c = "c" -> 99
      [] c = "e" -> 101
      [] c = "h" -> 104
      [] c = "l" -> 108
      [] c = "o" -> 111
      [] c = "p" -> 112
      [] c = "q" -> 113
      [] c = "x" -> 120
      [] c = "y" -> 121

\* unicode.IsSpace on the characters of the model
IsSpace(c) == c \in {" ", "\t", "\n"}

RECURSIVE TrimLeft(_)
TrimLeft(s) ==
    IF s # <<>> /\ IsSpace(Head(s)) THEN TrimLeft(Tail(s)) ELSE s

RECURSIVE TrimRight(_)
TrimRight(s) ==
    IF s # <<>> /\ IsSpace(s[Len(s)]) THEN TrimRight(SubSeq(s, 1, Len(s) - 1)) ELSE s

\* strings.TrimSpace
TrimSpace(s) == TrimRight(TrimLeft(s))

\* strings.Split(s, sep) for a one-character sep: always at least one token
RECURSIVE Split(_, _)
Split(s, sep) ==
    IF \A i \in 1..Len(s) : s[i] # sep
    THEN <<s>>
    ELSE LET i == CHOOSE k \in 1..Len(s) : s[k] = sep /\ \A j \in 1..(k - 1) : s[j] # sep
         IN  <<SubSeq(s, 1, i - 1)>> \o Split(SubSeq(s, i + 1, Len(s)), sep)

\* strings.Join(elems, sep)
RECURSIVE Join(_, _)
Join(elems, sep) ==
    IF elems = <<>> THEN <<>>
    ELSE IF Len(elems) = 1 THEN elems[1]
    ELSE elems[1] \o <<sep>> \o Join(Tail(elems), sep)

\* strings.HasPrefix
HasPrefix(s, prefix) ==
    Len(s) >= Len(prefix) /\ SubSeq(s, 1, Len(prefix)) = prefix

\* strings.TrimPrefix
TrimPrefix(s, prefix) ==
    IF HasPrefix(s, prefix) THEN SubSeq(s, Len(prefix) + 1, Len(s)) ELSE s

\* a < b for Go strings: byte-wise lexicographic order
RECURSIVE StrLess(_, _)
StrLess(a, b) ==
    IF b = <<>> THEN FALSE
    ELSE IF a = <<>> THEN TRUE
    ELSE IF Code(Head(a)) # Code(Head(b)) THEN Code(Head(a)) < Code(Head(b))
    ELSE StrLess(Tail(a), Tail(b))

\* sort.Strings on the elements of a set of strings
RECURSIVE SortStrings(_)
SortStrings(S) ==
    IF S = {} THEN <<>>
    ELSE LET m == CHOOSE x \in S : \A y \in S \ {x} : StrLess(x, y)
         IN  <<m>> \o SortStrings(S \ {m})

Range(f) == {f[i] : i \in DOMAIN f}

\* every string over the characters C of length at most n
StringsUpTo(C, n) == UNION {[1..k -> C] : k \in 0..n}

(***************************************************************************)
(* The tag normalizer.                                                     *)
(***************************************************************************)
\* toTagSet with the trimming left out
toTagSetNoTrim(tags) ==
    {t \in Range(Split(tags, ",")) : TrimSpace(t) # <<>>}

\* toTagSet: the trimmed, non-empty tokens of a comma-separated string
toTagSet(tags) ==
    {TrimSpace(t) : t \in Range(Split(tags, ","))} \ {<<>>}

\* normalizeTags that sorts the tokens as given and trims them afterwards
normalizeTagsSortsUntrimmed(tags) ==
    LET sorted == SortStrings(toTagSetNoTrim(tags))
    IN  Join([i \in 1..Len(sorted) |-> TrimSpace(sorted[i])], ",")

\* normalizeTags: deduplicate, sort and join the tags
normalizeTags(tags) ==
    IF tags = <<>> THEN <<>>
    ELSE Join(SortStrings(toTagSet(tags)), ",")

TagChars == {"a", "b", "B", ",", " "}
TagStrings == StringsUpTo(TagChars, MaxTagLen)

\* The specification of normalizeTags on its own: a tag string is drawn, then
\* normalized, then the result is normalized again.
InitTags ==
    /\ store = {}
    /\ seq = 0
    /\ last = [op |-> "none"]
    /\ ed = [pc |-> "off"]
    /\ \E s \in TagStrings : fn = [step |-> 0, in |-> s, out |-> <<>>, again |-> <<>>]

Normalize ==
    /\ fn.step = 0
    /\ fn' = [fn EXCEPT !.step = 1, !.out = normalizeTags(fn.in)]
    /\ UNCHANGED <<store, seq, last, ed>>

NormalizeAgain ==
    /\ fn.step = 1
    /\ fn' = [fn EXCEPT !.step = 2, !.again = normalizeTags(fn.out)]
    /\ UNCHANGED <<store, seq, last, ed>>

NextTags == Normalize \/ NormalizeAgain

SpecTags == InitTags /\ [][NextTags]_vars

\* C8: normalizeTags is idempotent: normalizing a normalized tag string gives
\* it back unchanged.
C8_Idempotent ==
    fn.step = 2 => fn.again = fn.out

\* a tag string with unsorted, repeated and padded tokens was normalized twice
C8_Witness ==
    /\ fn.step = 2
    /\ fn.in = <<"b", ",", " ", "a">>
    /\ fn.out = <<"a", ",", "b">>

\* the tokens a tag string is made of, trimmed, the empty ones dropped:
\* stated on positions, without Split
IsToken(s, i, j) ==
    /\ 1 <= i /\ i <= j + 1 /\ j <= Len(s)
    /\ \A k \in i..j : s[k] # ","
    /\ i = 1 \/ s[i - 1] = ","
    /\ j = Len(s) \/ s[j + 1] = ","

TokensOf(s) ==
    {TrimSpace(SubSeq(s, i, j)) : <<i, j>> \in {p \in (1..(Len(s) + 1)) \X (0..Len(s)) : IsToken(s, p[1], p[2])}}
        \ {<<>>}

\* C9: normalizeTags(s) is the comma-joined list of the distinct non-empty
\* trimmed tokens of s in ascending byte order; no token of the result is
\* empty or padded, and an input of only empty or blank tokens gives "".
C9_NormalForm ==
    fn.step >= 1 =>
        LET out == fn.out
            toks == Split(out, ",")
        IN  /\ (TokensOf(fn.in) = {}) <=> (out = <<>>)
            /\ out # <<>> =>
                /\ Range(toks) = TokensOf(fn.in)
                /\ \A i \in 1..Len(toks) :
                    /\ toks[i] # <<>>
                    /\ ~IsSpace(toks[i][1])
                    /\ ~IsSpace(toks[i][Len(toks[i])])
                /\ \A i \in 1..(Len(toks) - 1) : StrLess(toks[i], toks[i + 1])

\* tokens that differ only in case, given out of byte order around an empty token
C9_Witness ==
    /\ fn.step = 1
    /\ fn.in = <<"b", ",", ",", "B">>
    /\ fn.out = <<"B", ",", "b">>

\* an input of blank tokens only
C9_WitnessBlank ==
    /\ fn.step = 1
    /\ fn.in = <<" ", ",", " ">>
    /\ fn.out = <<>>

(***************************************************************************)
(* The terminal editor: an editorModel (a textarea and a quit flag) driven *)
(* by the messages of the terminal.                                        *)
(***************************************************************************)
\* A tea.Msg: a key message with its type, Alt flag and rune, or another message.
KeyMsg(type, alt, rune) == [isKey |-> TRUE, type |-> type, alt |-> alt, rune |-> rune]
OtherMsg == [isKey |-> FALSE, type |-> "Blink", alt |-> FALSE, rune |-> ""]

KeyEsc == KeyMsg("KeyEsc", FALSE, "")
KeyCtrlC == KeyMsg("KeyCtrlC", FALSE, "")
KeyCtrlD == KeyMsg("KeyCtrlD", FALSE, "")
KeyAltEnter == KeyMsg("KeyEnter", TRUE, "")
KeyEnter == KeyMsg("KeyEnter", FALSE, "")
KeyRune(c) == KeyMsg("KeyRunes", FALSE, c)

CancelKeys == {KeyEsc, KeyCtrlC}
SubmitKeys == {KeyCtrlD, KeyAltEnter}
EditMsgs ==
    {KeyEnter, KeyRune("x"), KeyRune(" "), KeyMsg("KeyBackspace", FALSE, ""),
     KeyMsg("KeyDelete", FALSE, ""), KeyMsg("KeyLeft", FALSE, ""),
     KeyMsg("KeyRight", FALSE, ""), OtherMsg}
Msgs == CancelKeys \cup SubmitKeys \cup EditMsgs

\* the text with the characters cs put in after the first col characters
InsertAt(text, col, cs) ==
    SubSeq(text, 1, col) \o cs \o SubSeq(text, col + 1, Len(text))

\* the text without its k-th character
RemoveAt(text, k) ==
    SubSeq(text, 1, k - 1) \o SubSeq(text, k + 1, Len(text))

\* textarea.Model after SetValue: the text, the cursor behind its last character
taSetValue(s) == [value |-> s, col |-> Len(s)]

\* textarea.Model.Value
taValue(ta) == ta.value

\* what textarea.Model.Update puts into the buffer for a message
taInserted(msg) ==
    IF ~msg.isKey THEN <<>>
    ELSE IF msg.type = "KeyRunes" THEN <<msg.rune>>
    ELSE IF msg.type = "KeyEnter" /\ ~msg.alt THEN <<"\n">>
    ELSE <<>>

\* textarea.Model.Update: printable characters and Enter go in at the cursor,
\* the editing keys delete around it, the arrows move it
taUpdate(ta, msg) ==
    IF taInserted(msg) # <<>>
    THEN [value |-> InsertAt(ta.value, ta.col, taInserted(msg)), col |-> ta.col + 1]
    ELSE IF ~msg.isKey THEN ta
    ELSE IF msg.type = "KeyBackspace"
    THEN IF ta.col = 0 THEN ta
         ELSE [value |-> RemoveAt(ta.value, ta.col), col |-> ta.col - 1]
    ELSE IF msg.type \in {"KeyDelete", "KeyCtrlD"}
    THEN IF ta.col = Len(ta.value) THEN ta
         ELSE [value |-> RemoveAt(ta.value, ta.col + 1), col |-> ta.col]
    ELSE IF msg.type = "KeyLeft"
    THEN [ta EXCEPT !.col = IF ta.col = 0 THEN 0 ELSE ta.col - 1]
    ELSE IF msg.type = "KeyRight"
    THEN [ta EXCEPT !.col = IF ta.col = Len(ta.value) THEN ta.col ELSE ta.col + 1]
    ELSE ta

\* initialEditorModel: a focused textarea holding the initial content
initialEditorModel(initialContent) ==
    [ta |-> taSetValue(initialContent), quitting |-> FALSE]

\* Update that drops a character equal to the one before the cursor
UpdateDropsRepeat(m, msg) ==
    IF msg.isKey /\ (msg.type \in {"KeyEsc", "KeyCtrlC", "KeyCtrlD"} \/ (msg.type = "KeyEnter" /\ msg.alt))
    THEN [m |-> [m EXCEPT !.quitting = TRUE], cmd |-> "Quit"]
    ELSE IF /\ msg.isKey /\ msg.type = "KeyRunes"
            /\ m.ta.col > 0 /\ m.ta.value[m.ta.col] = msg.rune
    THEN [m |-> m, cmd |-> "ta"]
    ELSE [m |-> [m EXCEPT !.ta = taUpdate(m.ta, msg)], cmd |-> "ta"]

\* Update in which Enter ends the session, with or without Alt
UpdateEnterQuits(m, msg) ==
    IF msg.isKey /\ (msg.type \in {"KeyEsc", "KeyCtrlC", "KeyCtrlD"} \/ msg.type = "KeyEnter")
    THEN [m |-> [m EXCEPT !.quitting = TRUE], cmd |-> "Quit"]
    ELSE [m |-> [m EXCEPT !.ta = taUpdate(m.ta, msg)], cmd |-> "ta"]

\* editorModel.Update: Esc, Ctrl+C, Ctrl+D and Alt+Enter set the quit flag and
\* return tea.Quit; every other message goes to the textarea
Update(m, msg) ==
    IF msg.isKey /\ (msg.type = "KeyEsc" \/ msg.type = "KeyCtrlC")
    THEN [m |-> [m EXCEPT !.quitting = TRUE], cmd |-> "Quit"]
    ELSE IF msg.isKey /\ msg.type = "KeyCtrlD"
    THEN [m |-> [m EXCEPT !.quitting = TRUE], cmd |-> "Quit"]
    ELSE IF msg.isKey /\ msg.type = "KeyEnter" /\ msg.alt
    THEN [m |-> [m EXCEPT !.quitting = TRUE], cmd |-> "Quit"]
    ELSE [m |-> [m EXCEPT !.ta = taUpdate(m.ta, msg)], cmd |-> "ta"]

\* RunTUIEditor's return of a trimmed text
EditorResultTrimmed(m) == [value |-> TrimSpace(taValue(m.ta)), err |-> "nil"]

\* RunTUIEditor's return after the program ended: the text of the final model
EditorResult(m) == [value |-> taValue(m.ta), err |-> "nil"]

\* RunTUIEditor's return when the program could not run
EditorFailed == [value |-> <<>>, err |-> "error running TUI editor"]

\* tea.Program.Run on a sequence of messages: Update is applied to one message
\* after the other until it returns tea.Quit
RECURSIVE RunProgram(_, _)
RunProgram(m, msgs) ==
    IF msgs = <<>> THEN m
    ELSE LET r == Update(m, Head(msgs))
         IN  IF r.cmd = "Quit" THEN r.m ELSE RunProgram(r.m, Tail(msgs))

\* RunTUIEditor for a user who sends the messages msgs
RunTUIEditor(initialContent, msgs) ==
    EditorResult(RunProgram(initialEditorModel(initialContent), msgs))

\* the message grows the buffer
Grows(msg) == taInserted(msg) # <<>>

InitialContents == {<<>>, <<"x">>, <<" ", "x", " ">>, <<"h", "e", "l", "l", "o">>}

\* The specification of one editor session: RunTUIEditor is called with an
\* initial content, the program takes the terminal's messages one by one, and
\* RunTUIEditor returns.
InitEditor ==
    /\ store = {}
    /\ seq = 0
    /\ last = [op |-> "none"]
    /\ fn = [step |-> 0]
    /\ \E c \in InitialContents :
        ed = [pc |-> "start", initial |-> c, m |-> initialEditorModel(c),
              prev |-> initialEditorModel(c), msg |-> OtherMsg, edits |-> FALSE,
              result |-> [value |-> <<>>, err |-> "none"]]

\* tea.NewProgram(...).Run() takes the terminal
EdRun ==
    /\ ed.pc = "start"
    /\ ed' = [ed EXCEPT !.pc = "active"]
    /\ UNCHANGED <<store, seq, last, fn>>

\* p.Run() fails: RunTUIEditor returns the error
EdRunFails ==
    /\ ed.pc = "start"
    /\ ed' = [ed EXCEPT !.pc = "returned", !.result = EditorFailed]
    /\ UNCHANGED <<store, seq, last, fn>>

\* the program hands the next message to Update
EdMsg ==
    /\ ed.pc = "active"
    /\ \E msg \in Msgs :
        /\ Grows(msg) => Len(ed.m.ta.value) < MaxBuf
        /\ LET r == Update(ed.m, msg)
           IN  ed' = [ed EXCEPT !.m = r.m, !.prev = ed.m, !.msg = msg,
                                !.edits = ed.edits \/ r.cmd # "Quit",
                                !.pc = IF r.cmd = "Quit" THEN "quit" ELSE "active"]
    /\ UNCHANGED <<store, seq, last, fn>>

\* the program has ended: RunTUIEditor returns the text of the final model
EdReturn ==
    /\ ed.pc = "quit"
    /\ ed' = [ed EXCEPT !.pc = "returned", !.result = EditorResult(ed.m)]
    /\ UNCHANGED <<store, seq, last, fn>>

NextEditor == EdRun \/ EdRunFails \/ EdMsg \/ EdReturn

SpecEditor == InitEditor /\ [][NextEditor]_vars

\* the results RunTUIEditor gives for the sessions that are submitted at once
SubmittedAtOnce ==
    {RunTUIEditor(c, <<k>>) : c \in InitialContents, k \in SubmitKeys}

\* C2: what RunTUIEditor returns for a session ended by Escape or Ctrl+C differs
\* from what it returns for every session ended by Ctrl+D or Alt+Enter.
C2_CancelDistinct ==
    (ed.pc = "returned" /\ ed.msg \in CancelKeys) => ed.result \notin SubmittedAtOnce

\* C3: a session ended by Ctrl+D or Alt+Enter returns the buffer text as it was
\* when the submit key arrived, untrimmed and without an error; with no edits
\* that is the initial content.
C3_SubmitReturnsBuffer ==
    (ed.pc = "returned" /\ ed.msg \in SubmitKeys) =>
        /\ ed.result = [value |-> ed.prev.ta.value, err |-> "nil"]
        /\ ~ed.edits => ed.result.value = ed.initial

\* Ctrl+D arrived with the cursor before a character and around padded text
C3_Witness ==
    /\ ed.pc = "returned"
    /\ ed.msg = KeyCtrlD
    /\ ed.edits
    /\ ed.prev.ta = [value |-> <<" ", "x", " ">>, col |-> 1]
    /\ ed.result.value = <<" ", "x", " ">>

\* Alt+Enter arrived first in a session started with "hello"
C3_WitnessAltEnter ==
    /\ ed.pc = "returned"
    /\ ed.msg = KeyAltEnter
    /\ ~ed.edits
    /\ ed.result.value = <<"h", "e", "l", "l", "o">>

C4_WitnessEnded ==
    /\ ed.pc = "returned"
    /\ ed.msg = KeyEsc
    /\ ed.edits
    /\ ed.m.quitting

(***************************************************************************)
(* The prompt store (SQLitePromptStore over the prompts table).            *)
(***************************************************************************)
MaxPromptNameLen == 255
MaxPromptContentLen == 10000

Row(id, name, prompt, tags) == [id |-> id, name |-> name, prompt |-> prompt, tags |-> tags]

\* the rows a WHERE name = ? selects
RowsNamed(st, name) == {r \in st : r.name = name}

\* AddPrompt that inserts without looking for the name
StoreAddPromptNoUnique(st, sq, name, prompt, tags) ==
    [err |-> "nil", store |-> st \cup {Row(sq + 1, name, prompt, tags)}, seq |-> sq + 1]

\* SQLitePromptStore.AddPrompt: INSERT; the UNIQUE constraint on name turns a
\* second row of that name into the 'already exists' error
StoreAddPrompt(st, sq, name, prompt, tags) ==
    IF RowsNamed(st, name) # {}
    THEN [err |-> "already exists", store |-> st, seq |-> sq]
    ELSE [err |-> "nil", store |-> st \cup {Row(sq + 1, name, prompt, tags)}, seq |-> sq + 1]

\* GetPromptByName that returns an empty prompt when no row has the name
GetPromptByNameNoRows(st, name) ==
    IF RowsNamed(st, name) = {}
    THEN [err |-> "nil", p |-> Row(0, name, <<>>, <<>>)]
    ELSE [err |-> "nil", p |-> CHOOSE r \in RowsNamed(st, name) : TRUE]

\* SQLitePromptStore.GetPromptByName
GetPromptByName(st, name) ==
    IF RowsNamed(st, name) = {}
    THEN [err |-> "not found", p |-> Row(0, <<>>, <<>>, <<>>)]
    ELSE [err |-> "nil", p |-> CHOOSE r \in RowsNamed(st, name) : TRUE]

\* UpdatePrompt that inserts the row when no row has the name
StoreUpdatePromptUpserts(st, name, newPrompt, newTags) ==
    IF RowsNamed(st, name) = {}
    THEN [err |-> "nil",
          store |-> st \cup {Row(1 + Cardinality(st) + Cardinality({r \in st : r.id > Cardinality(st)}),
                                 name, newPrompt, newTags)}]
    ELSE [err |-> "nil",
          store |-> {IF r.name = name THEN [r EXCEPT !.prompt = newPrompt, !.tags = newTags] ELSE r
                        : r \in st}]

\* UpdatePrompt that replaces the row by a new one
StoreUpdatePromptReinserts(st, name, newPrompt, newTags) ==
    IF RowsNamed(st, name) = {}
    THEN [err |-> "not found for update", store |-> st]
    ELSE [err |-> "nil",
          store |-> (st \ RowsNamed(st, name))
                        \cup {Row(1 + Cardinality(st) + Cardinality({r \in st : r.id > Cardinality(st)}),
                                  name, newPrompt, newTags)}]

\* SQLitePromptStore.UpdatePrompt: UPDATE ... WHERE name = ?; no row, an error
StoreUpdatePrompt(st, name, newPrompt, newTags) ==
    IF RowsNamed(st, name) = {}
    THEN [err |-> "not found for update", store |-> st]
    ELSE [err |-> "nil",
          store |-> {IF r.name = name THEN [r EXCEPT !.prompt = newPrompt, !.tags = newTags] ELSE r
                        : r \in st}]

\* DeletePrompt that does not look at the number of rows deleted
StoreDeletePromptNoCheck(st, name) ==
    [err |-> "nil", store |-> st \ RowsNamed(st, name)]

\* SQLitePromptStore.DeletePrompt: DELETE ... WHERE name = ?; no row, an error
StoreDeletePrompt(st, name) ==
    IF RowsNamed(st, name) = {}
    THEN [err |-> "not found for deletion", store |-> st]
    ELSE [err |-> "nil", store |-> st \ RowsNamed(st, name)]

\* ListPrompts without the ORDER BY: the rows in the order of their ids
RECURSIVE ListPromptsById(_)
ListPromptsById(st) ==
    IF st = {} THEN <<>>
    ELSE LET first == CHOOSE r \in st : \A o \in st : r.id <= o.id
         IN  <<first>> \o ListPromptsById(st \ {first})

\* SQLitePromptStore.ListPrompts: every row, ORDER BY name
RECURSIVE ListPrompts(_)
ListPrompts(st) ==
    IF st = {} THEN <<>>
    ELSE LET first == CHOOSE r \in st : \A o \in st : ~StrLess(o.name, r.name)
         IN  <<first>> \o ListPrompts(st \ {first})

\* the trimmed, non-empty tokens of the filter, in the order given
FilterTagList(tagsFilter) ==
    LET toks == Split(tagsFilter, ",")
        trimmed == [i \in 1..Len(toks) |-> TrimSpace(toks[i])]
    IN  SelectSeq(trimmed, LAMBDA t : t # <<>>)

\* ListPromptsByTags that takes every filter for an OR filter
ListPromptsByTagsOrOnly(st, tagsFilter) ==
    LET allPrompts == ListPrompts(st)
        filterTags == FilterTagList(TrimPrefix(tagsFilter, <<"A", "N", "D", ":">>))
        keep(prompt) == prompt.tags # <<>> /\ \E i \in DOMAIN filterTags : filterTags[i] \in toTagSet(prompt.tags)
    IN  IF tagsFilter = <<>> \/ Len(filterTags) = 0 THEN allPrompts
        ELSE SelectSeq(allPrompts, keep)

\* ListPromptsByTags whose filter loop lets the rows without tags through
ListPromptsByTagsKeepsUntagged(st, tagsFilter) ==
    LET allPrompts == ListPrompts(st)
        useAndLogic == HasPrefix(tagsFilter, <<"A", "N", "D", ":">>)
        filterTags == FilterTagList(TrimPrefix(tagsFilter, <<"A", "N", "D", ":">>))
        keep(prompt) ==
            \/ prompt.tags = <<>>
            \/ LET promptTagSet == toTagSet(prompt.tags)
               IN  IF useAndLogic
                   THEN \A i \in DOMAIN filterTags : filterTags[i] \in promptTagSet
                   ELSE \E i \in DOMAIN filterTags : filterTags[i] \in promptTagSet
    IN  IF tagsFilter = <<>> \/ Len(filterTags) = 0 THEN allPrompts
        ELSE SelectSeq(allPrompts, keep)

\* SQLitePromptStore.ListPromptsByTags: the rows filtered in memory; the
\* prefix AND: asks for every filter tag, without it one filter tag is enough
ListPromptsByTags(st, tagsFilter) ==
    LET allPrompts == ListPrompts(st)
        useAndLogic == HasPrefix(tagsFilter, <<"A", "N", "D", ":">>)
        filterTags == FilterTagList(IF useAndLogic
                                    THEN TrimPrefix(tagsFilter, <<"A", "N", "D", ":">>)
                                    ELSE tagsFilter)
        keep(prompt) ==
            /\ prompt.tags # <<>>
            /\ LET promptTagSet == toTagSet(prompt.tags)
               IN  IF useAndLogic
                   THEN \A i \in DOMAIN filterTags : filterTags[i] \in promptTagSet
                   ELSE \E i \in DOMAIN filterTags : filterTags[i] \in promptTagSet
    IN  IF tagsFilter = <<>> THEN allPrompts
        ELSE IF Len(filterTags) = 0 THEN allPrompts
        ELSE SelectSeq(allPrompts, keep)

\* App.ListPrompts
AppListPrompts(st, tagsFilter) ==
    IF tagsFilter # <<>> THEN ListPromptsByTags(st, tagsFilter) ELSE ListPrompts(st)

(***************************************************************************)
(* The editors a command can call, and the user in front of them.          *)
(***************************************************************************)
\* LaunchExternalEditor: no editor program, a failing editor, or the trimmed
\* content of the temporary file the editor program left
LaunchExternalEditor(initialContent, user) ==
    IF user.kind = "noEditor" THEN [value |-> <<>>, err |-> "no editor found"]
    ELSE IF user.kind = "editorFails" THEN [value |-> <<>>, err |-> "editor command failed"]
    ELSE IF user.kind = "keeps" THEN [value |-> TrimSpace(initialContent), err |-> "nil"]
    ELSE [value |-> TrimSpace(user.text), err |-> "nil"]

\* the editor call that takes a failed editor for one that changed nothing
EditorEditIgnoresFailure(useExternalEditor, initialContent, user) ==
    IF user.kind \in {"noTerminal", "noEditor", "editorFails"}
    THEN [value |-> initialContent, err |-> "nil"]
    ELSE IF useExternalEditor THEN LaunchExternalEditor(initialContent, user)
    ELSE RunTUIEditor(initialContent, user.msgs)

\* the editor call of AddPrompt and of the edit command
EditorEdit(useExternalEditor, initialContent, user) ==
    IF useExternalEditor THEN LaunchExternalEditor(initialContent, user)
    ELSE IF user.kind = "noTerminal" THEN EditorFailed
    ELSE RunTUIEditor(initialContent, user.msgs)

(***************************************************************************)
(* The application layer.                                                  *)
(***************************************************************************)
\* validatePromptName without the length limit
validatePromptNameNoLimit(name) ==
    IF name = <<>> THEN "prompt name cannot be empty" ELSE "nil"

\* validatePromptName
validatePromptName(name) ==
    IF name = <<>> THEN "prompt name cannot be empty"
    ELSE IF Len(name) > MaxPromptNameLen THEN "prompt name too long"
    ELSE "nil"

\* validatePromptContent that measures the content as given
validatePromptContentUntrimmed(content) ==
    IF Len(TrimSpace(content)) = 0 THEN "prompt content cannot be empty"
    ELSE IF Len(content) > MaxPromptContentLen THEN "prompt content too long"
    ELSE "nil"

\* validatePromptContent
validatePromptContent(content) ==
    LET trimmed == TrimSpace(content)
    IN  IF Len(trimmed) = 0 THEN "prompt content cannot be empty"
        ELSE IF Len(trimmed) > MaxPromptContentLen THEN "prompt content too long"
        ELSE "nil"

\* what a command did besides changing the table: its error, whether it
\* launched an editor and what the editor returned, the store calls it made
\* and the lines it printed
Done(err, st, sq, launched, content, calls, out) ==
    [err |-> err, store |-> st, seq |-> sq, launched |-> launched, content |-> content,
     calls |-> calls, out |-> out]

Call(f, name, err) == [f |-> f, name |-> name, err |-> err]

\* AppAddPrompt that stores the tags as given
AppAddPromptRawTags(st, sq, name, tags, useExternalEditor, user) ==
    LET e == EditorEdit(useExternalEditor, <<>>, user)
        r == StoreAddPrompt(st, sq, name, e.value, tags)
    IN  IF validatePromptName(name) # "nil"
        THEN Done(validatePromptName(name), st, sq, FALSE, <<>>, <<>>, <<>>)
        ELSE IF e.err # "nil"
        THEN Done("error getting prompt content", st, sq, TRUE, <<>>, <<>>, <<>>)
        ELSE IF e.value = <<>>
        THEN Done("nil", st, sq, TRUE, e.value, <<>>, <<"Operation cancelled. No prompt added.">>)
        ELSE IF validatePromptContent(e.value) # "nil"
        THEN Done(validatePromptContent(e.value), st, sq, TRUE, e.value, <<>>, <<>>)
        ELSE Done(r.err, r.store, r.seq, TRUE, e.value, <<Call("AddPrompt", name, r.err)>>, <<>>)

\* App.AddPrompt
AppAddPrompt(st, sq, name, tags, useExternalEditor, user) ==
    IF validatePromptName(name) # "nil"
    THEN Done(validatePromptName(name), st, sq, FALSE, <<>>, <<>>, <<>>)
    ELSE LET e == EditorEdit(useExternalEditor, <<>>, user)
             promptContent == e.value
             normalizedTags == normalizeTags(tags)
             r == StoreAddPrompt(st, sq, name, promptContent, normalizedTags)
         IN  IF e.err # "nil"
             THEN Done("error getting prompt content", st, sq, TRUE, <<>>, <<>>, <<>>)
             ELSE IF promptContent = <<>>
             THEN Done("nil", st, sq, TRUE, promptContent, <<>>,
                       <<"Operation cancelled. No prompt added.">>)
             ELSE IF validatePromptContent(promptContent) # "nil"
             THEN Done(validatePromptContent(promptContent), st, sq, TRUE, promptContent,
                       <<>>, <<>>)
             ELSE Done(r.err, r.store, r.seq, TRUE, promptContent,
                       <<Call("AddPrompt", name, r.err)>>, <<>>)

\* the add command: AddPrompt, then the success line
AddCmd(st, sq, name, tags, useExternalEditor, user) ==
    LET r == AppAddPrompt(st, sq, name, tags, useExternalEditor, user)
    IN  IF r.err # "nil" THEN r
        ELSE [r EXCEPT !.out = r.out \o <<"Prompt added successfully!">>]

\* App.DeletePrompt and the delete command
DeleteCmd(st, sq, name) ==
    LET r == StoreDeletePrompt(st, name)
    IN  IF r.err # "nil"
        THEN Done("error deleting prompt", st, sq, FALSE, <<>>,
                  <<Call("DeletePrompt", name, r.err)>>, <<>>)
        ELSE Done("nil", r.store, sq, FALSE, <<>>, <<Call("DeletePrompt", name, r.err)>>,
                  <<"Prompt deleted successfully!">>)

\* App.EditPrompt
AppEditPrompt(st, sq, existingPrompt, newPrompt, newTags) ==
    IF validatePromptName(existingPrompt.name) # "nil"
    THEN Done(validatePromptName(existingPrompt.name), st, sq, TRUE, newPrompt, <<>>, <<>>)
    ELSE LET normalizedTags == normalizeTags(newTags)
             r == StoreUpdatePrompt(st, existingPrompt.name, newPrompt, normalizedTags)
         IN  IF newPrompt = existingPrompt.prompt /\ normalizedTags = existingPrompt.tags
             THEN Done("nil", st, sq, TRUE, newPrompt, <<>>,
                       <<"No changes detected for prompt or tags.">>)
             ELSE IF validatePromptContent(newPrompt) # "nil"
             THEN Done(validatePromptContent(newPrompt), st, sq, TRUE, newPrompt, <<>>, <<>>)
             ELSE IF r.err # "nil"
             THEN Done("error editing prompt", st, sq, TRUE, newPrompt,
                       <<Call("UpdatePrompt", existingPrompt.name, r.err)>>, <<>>)
             ELSE Done("nil", r.store, sq, TRUE, newPrompt,
                       <<Call("UpdatePrompt", existingPrompt.name, r.err)>>, <<>>)

\* the edit command: fetch the prompt, take the tags flag if it was given, run
\* the editor on the stored content, EditPrompt, then the success line
EditCmd(st, sq, name, tagsChanged, tagsFlag, useExternalEditor, user) ==
    LET g == GetPromptByName(st, name)
        existingPrompt == g.p
        finalTags == IF tagsChanged THEN tagsFlag ELSE existingPrompt.tags
        e == EditorEdit(useExternalEditor, existingPrompt.prompt, user)
        r == AppEditPrompt(st, sq, existingPrompt, e.value, finalTags)
    IN  IF g.err # "nil" THEN Done(g.err, st, sq, FALSE, <<>>, <<>>, <<>>)
        ELSE IF e.err # "nil" THEN Done(e.err, st, sq, TRUE, <<>>, <<>>, <<>>)
        ELSE IF r.err # "nil" THEN r
        ELSE [r EXCEPT !.out = r.out \o <<"Prompt edited successfully!">>]

\* the import loop that skips an entry whose name is stored already
ImportOneSkipsExisting(acc, prompt) ==
    IF prompt.name = <<>> \/ prompt.prompt = <<>>
    THEN [acc EXCEPT !.skipped = acc.skipped + 1]
    ELSE LET a == StoreAddPrompt(acc.store, acc.seq, prompt.name, prompt.prompt, prompt.tags)
         IN  IF a.err = "nil"
             THEN [acc EXCEPT !.store = a.store, !.seq = a.seq, !.imported = acc.imported + 1,
                              !.calls = acc.calls \o <<Call("AddPrompt", prompt.name, a.err)>>]
             ELSE [acc EXCEPT !.skipped = acc.skipped + 1,
                              !.calls = acc.calls \o <<Call("AddPrompt", prompt.name, a.err)>>]

\* one round of the import loop on the entry prompt
ImportOne(acc, prompt) ==
    IF prompt.name = <<>> \/ prompt.prompt = <<>>
    THEN [acc EXCEPT !.skipped = acc.skipped + 1]
    ELSE LET a == StoreAddPrompt(acc.store, acc.seq, prompt.name, prompt.prompt, prompt.tags)
             u == StoreUpdatePrompt(acc.store, prompt.name, prompt.prompt, prompt.tags)
         IN  IF a.err = "nil"
             THEN [acc EXCEPT !.store = a.store, !.seq = a.seq, !.imported = acc.imported + 1,
                              !.calls = acc.calls \o <<Call("AddPrompt", prompt.name, a.err)>>]
             ELSE IF a.err = "already exists"
             THEN IF u.err # "nil"
                  THEN [acc EXCEPT !.skipped = acc.skipped + 1,
                                   !.calls = acc.calls \o <<Call("AddPrompt", prompt.name, a.err),
                                                            Call("UpdatePrompt", prompt.name, u.err)>>]
                  ELSE [acc EXCEPT !.store = u.store, !.imported = acc.imported + 1,
                                   !.calls = acc.calls \o <<Call("AddPrompt", prompt.name, a.err),
                                                            Call("UpdatePrompt", prompt.name, u.err)>>]
             ELSE [acc EXCEPT !.skipped = acc.skipped + 1,
                              !.calls = acc.calls \o <<Call("AddPrompt", prompt.name, a.err)>>]

RECURSIVE ImportLoop(_, _)
ImportLoop(acc, prompts) ==
    IF prompts = <<>> THEN acc
    ELSE ImportLoop(ImportOne(acc, Head(prompts)), Tail(prompts))

\* the import command on the entries of a file that was read and parsed
ImportCmd(st, sq, prompts) ==
    LET acc == ImportLoop([store |-> st, seq |-> sq, imported |-> 0, skipped |-> 0,
                           calls |-> <<>>], prompts)
    IN  [imported |-> acc.imported, skipped |-> acc.skipped]
            @@ Done("nil", acc.store, acc.seq, FALSE, <<>>, acc.calls, <<"Imported, skipped">>)

(***************************************************************************)
(* The commands, one invocation of p after the other.                      *)
(***************************************************************************)
NameP == <<"p">>
NameQ == <<"q">>
Names == {NameP, NameQ, <<>>}

\* values of the --tags flag
TagArgs == {<<>>, <<"b", ",", "a">>, <<" ", "a", ",">>}

\* what the user does in the terminal editor before the terminating key
TypedSeqs ==
    {<<>>, <<KeyRune("x")>>, <<KeyRune(" ")>>, <<KeyMsg("KeyBackspace", FALSE, "")>>}

User(kind, msgs, text) == [kind |-> kind, msgs |-> msgs, text |-> text]

TuiUsers ==
    {User("tui", typed \o <<k>>, <<>>) : typed \in TypedSeqs, k \in CancelKeys \cup SubmitKeys}
        \cup {User("noTerminal", <<>>, <<>>)}

ExtUsers ==
    {User("noEditor", <<>>, <<>>), User("editorFails", <<>>, <<>>), User("keeps", <<>>, <<>>),
     User("saved", <<>>, <<" ", "x", "\n">>), User("saved", <<>>, <<" ", "\n">>)}

Users(useExternalEditor) == IF useExternalEditor THEN ExtUsers ELSE TuiUsers

\* the session of the user keeps the text within the length the model follows
Fits(initialContent, user) ==
    Len(initialContent) + Cardinality({i \in DOMAIN user.msgs : Grows(user.msgs[i])}) <= MaxContent

Entry(name, prompt, tags) == [name |-> name, prompt |-> prompt, tags |-> tags]

\* the files given to import: lists of entries, some with an empty name or an
\* empty or blank content, some with tags as a user wrote them
ImportFiles ==
    {<<>>,
     <<Entry(NameP, <<"x">>, <<"b", ",", "a">>)>>,
     <<Entry(NameQ, <<" ">>, <<>>)>>,
     <<Entry(<<>>, <<"x">>, <<>>), Entry(NameQ, <<>>, <<"a">>)>>,
     <<Entry(NameP, <<"x">>, <<"a">>), Entry(NameP, <<"x", "x">>, <<>>)>>}

Idle == [op |-> "none"]

Init ==
    /\ store = {}
    /\ seq = 0
    /\ last = Idle
    /\ ed = [pc |-> "off"]
    /\ fn = [step |-> 0]

\* p add NAME [-t TAGS] [-e]
Add ==
    /\ last = Idle
    /\ seq < MaxIds
    /\ \E name \in Names, tags \in TagArgs, ext \in BOOLEAN :
        \E user \in Users(ext) :
            /\ Fits(<<>>, user)
            /\ LET r == AddCmd(store, seq, name, tags, ext, user)
               IN  /\ store' = r.store
                   /\ seq' = r.seq
                   /\ last' = [op |-> "add", name |-> name, tags |-> tags, ext |-> ext,
                               user |-> user, pre |-> store, r |-> r]
    /\ UNCHANGED <<ed, fn>>

\* p edit NAME [-t TAGS] [-e]
Edit ==
    /\ last = Idle
    /\ \E name \in Names, tagsChanged \in BOOLEAN, tags \in TagArgs, ext \in BOOLEAN :
        \E user \in Users(ext) :
            /\ ~tagsChanged => tags = <<>>
            /\ Fits(GetPromptByName(store, name).p.prompt, user)
            /\ LET r == EditCmd(store, seq, name, tagsChanged, tags, ext, user)
               IN  /\ store' = r.store
                   /\ seq' = r.seq
                   /\ last' = [op |-> "edit", name |-> name, tagsChanged |-> tagsChanged,
                               tags |-> tags, ext |-> ext, user |-> user, pre |-> store,
                               r |-> r]
    /\ UNCHANGED <<ed, fn>>

\* p delete NAME
Delete ==
    /\ last = Idle
    /\ \E name \in Names :
        LET r == DeleteCmd(store, seq, name)
        IN  /\ store' = r.store
            /\ seq' = r.seq
            /\ last' = [op |-> "delete", name |-> name, pre |-> store, r |-> r]
    /\ UNCHANGED <<ed, fn>>

\* p import FILE
Import ==
    /\ last = Idle
    /\ \E prompts \in ImportFiles :
        /\ seq + Len(prompts) <= MaxIds
        /\ LET r == ImportCmd(store, seq, prompts)
           IN  /\ store' = r.store
               /\ seq' = r.seq
               /\ last' = [op |-> "import", prompts |-> prompts, pre |-> store, r |-> r]
    /\ UNCHANGED <<ed, fn>>

\* the process of the command exits
Exit ==
    /\ last # Idle
    /\ last' = Idle
    /\ UNCHANGED <<store, seq, ed, fn>>

Next == Add \/ Edit \/ Delete \/ Import \/ Exit

Spec == Init /\ [][Next]_vars

\* the last command ran the terminal editor and the user ended it with a cancel key
CancelledInTui ==
    /\ last.op \in {"add", "edit"}
    /\ last.r.launched
    /\ ~last.ext
    /\ last.user.kind = "tui"
    /\ last.user.msgs[Len(last.user.msgs)] \in CancelKeys

\* C1: an Add or Edit whose terminal editor session ends with Escape or Ctrl+C
\* leaves the store as it was before the command, whatever was typed.
C1_CancelDiscards ==
    CancelledInTui => store = last.pre

\* C5: the tags of every stored record are in normalized form.
C5_TagsNormalized ==
    \A r \in store : r.tags = normalizeTags(r.tags)

\* C6: no stored record has a content that is empty or only whitespace.
C6_ContentNotBlank ==
    \A r \in store : TrimSpace(r.prompt) # <<>>

TagsAB == <<"a", ",", "b">>
TagsABC == <<"a", ",", "b", ",", "c">>
ListTags == {<<>>, TagsAB, TagsABC, <<"c">>, <<"a", "b">>, <<",">>}

FilterBC == <<"b", ",", "c">>
FilterAndBC == <<"A", "N", "D", ":", "b", ",", "c">>
FilterAndAC == <<"A", "N", "D", ":", "a", ",", "c">>
FilterComma == <<",">>
Filters ==
    {<<>>, FilterBC, FilterAndBC, FilterAndAC, <<"a">>, <<" ", "b">>, FilterComma,
     <<"A", "N", "D", ":">>}

\* p import FILE with a file of one tagged entry
ImportTagged ==
    /\ last = Idle
    /\ \E name \in {NameP, NameQ}, tags \in ListTags :
        LET prompts == <<Entry(name, <<"x">>, tags)>>
            r == ImportCmd(store, seq, prompts)
        IN  /\ store' = r.store
            /\ seq' = r.seq
            /\ last' = [op |-> "import", prompts |-> prompts, pre |-> store, r |-> r]
    /\ UNCHANGED <<ed, fn>>

\* p list [-t FILTER]
List ==
    /\ last = Idle
    /\ \E tagsFilter \in Filters :
        last' = [op |-> "list", filter |-> tagsFilter,
                 result |-> AppListPrompts(store, tagsFilter)]
    /\ UNCHANGED <<store, seq, ed, fn>>

NextList == ImportTagged \/ List \/ Exit

SpecList == Init /\ [][NextList]_vars

\* the tags a filter names: its tokens, the prefix AND: set aside
FilterNames(f) ==
    TokensOf(IF HasPrefix(f, <<"A", "N", "D", ":">>) THEN SubSeq(f, 5, Len(f)) ELSE f)

\* a record matches a filter on whole tags
Matches(r, f) ==
    IF HasPrefix(f, <<"A", "N", "D", ":">>)
    THEN FilterNames(f) \subseteq TokensOf(r.tags)
    ELSE FilterNames(f) \cap TokensOf(r.tags) # {}

\* C10 as stated: List with a filter returns exactly the records that match
\* it on whole tags, one shared tag without AND:, every filter tag with it.
C10_FilterExact ==
    (last.op = "list" /\ last.filter # <<>>) =>
        Range(last.result) = {r \in store : Matches(r, last.filter)}

\* C10, amended: the same for a filter that names at least one tag; a filter
\* that names none (commas and blanks only, or a bare AND:) returns every record.
C10_FilterExactWhenNamed ==
    (last.op = "list" /\ last.filter # <<>>) =>
        IF FilterNames(last.filter) # {}
        THEN Range(last.result) = {r \in store : Matches(r, last.filter)}
        ELSE Range(last.result) = store

\* tags "a,b" and "a,b,c" are stored and the AND filter "b,c" returns the second only
C10_Witness ==
    /\ last.op = "list"
    /\ last.filter = FilterAndBC
    /\ \E r \in store : r.tags = TagsAB
    /\ \E r \in store : r.tags = TagsABC /\ last.result = <<r>>

\* the OR filter "b,c" returns both of them
C10_WitnessOr ==
    /\ last.op = "list"
    /\ last.filter = FilterBC
    /\ \E r \in store : r.tags = TagsAB
    /\ \E r \in store : r.tags = TagsABC
    /\ Range(last.result) = store

\* a record without a tag: its tags are empty or hold commas and blanks only
Untagged(r) == TokensOf(r.tags) = {}

\* C11 as stated: for every non-empty filter string, with or without AND:,
\* List returns no record whose tag set is empty.
C11_NoUntagged ==
    (last.op = "list" /\ last.filter # <<>>) =>
        \A r \in Range(last.result) : ~Untagged(r)

\* C11, amended: for every filter that names at least one tag, with or without
\* AND:, List returns no record whose tag set is empty.
C11_NoUntaggedWhenNamed ==
    (last.op = "list" /\ FilterNames(last.filter) # {}) =>
        \A r \in Range(last.result) : ~Untagged(r)

\* a record without tags is stored beside one tagged "a,b", and the filter "a"
\* returns the tagged one only
C11_Witness ==
    /\ last.op = "list"
    /\ last.filter = <<"a">>
    /\ \E r \in store : r.tags = <<>>
    /\ \E r \in store : r.tags = TagsAB /\ last.result = <<r>>

\* a record whose tags are a lone comma is left out by an AND filter
C11_WitnessComma ==
    /\ last.op = "list"
    /\ last.filter = FilterAndAC
    /\ \E r \in store : r.tags = <<",">>
    /\ \E r \in store : r.tags = TagsABC /\ last.result = <<r>>

(***************************************************************************)
(* Add, Edit and Delete: what they return and what they leave in the store. *)
(***************************************************************************)
\* the errors of the validators
ValidationErrors ==
    {"prompt name cannot be empty", "prompt name too long",
     "prompt content cannot be empty", "prompt content too long"}

\* the errors a command returns when its editor failed
EditorErrors ==
    {"error getting prompt content", "no editor found", "editor command failed",
     "error running TUI editor"}

\* the last command was an Add or an Edit whose editor returned a content
EditorReturned ==
    /\ last.op \in {"add", "edit"}
    /\ last.r.launched
    /\ last.r.err \notin EditorErrors

\* C12: an Add whose editor returns an empty or whitespace-only content is a
\* no-op: it returns no error and the store is as it was.
C12_BlankAddNoOp ==
    (EditorReturned /\ last.op = "add" /\ TrimSpace(last.r.content) = <<>>) =>
        /\ last.r.err = "nil"
        /\ store = last.pre

\* C13: an Edit whose editor returns an empty or whitespace-only content fails
\* with a validation error and the store is as it was, whatever the record
\* and the tags override.
C13_BlankEditFails ==
    (EditorReturned /\ last.op = "edit" /\ TrimSpace(last.r.content) = <<>>) =>
        /\ last.r.err \in ValidationErrors
        /\ store = last.pre

(***************************************************************************)
(* The validators on their own, on names and contents around the limits.   *)
(***************************************************************************)
\* the string of n characters c
Repeat(c, n) == [i \in 1..n |-> c]

\* lengths around a limit
Around(limit) == {0, 1, 2, limit - 1, limit, limit + 1, limit + 2}

\* names of letters and names of blanks
ValidatedNames ==
    {Repeat(c, n) : c \in {"p", " "}, n \in Around(MaxPromptNameLen)}

Paddings == {<<>>, <<" ">>, <<"\n", "\t">>}

\* contents with and without whitespace around them
ValidatedContents ==
    {l \o Repeat("x", n) \o r : l \in Paddings, r \in Paddings, n \in Around(MaxPromptContentLen)}

\* The specification of the validators: a name or a content is drawn, then
\* validated.
InitValidate ==
    /\ store = {}
    /\ seq = 0
    /\ last = [op |-> "none"]
    /\ ed = [pc |-> "off"]
    /\ \/ \E s \in ValidatedNames : fn = [step |-> 0, kind |-> "name", in |-> s, out |-> "none"]
       \/ \E s \in ValidatedContents :
            fn = [step |-> 0, kind |-> "content", in |-> s, out |-> "none"]

ValidateName ==
    /\ fn.step = 0
    /\ fn.kind = "name"
    /\ fn' = [fn EXCEPT !.step = 1, !.out = validatePromptName(fn.in)]
    /\ UNCHANGED <<store, seq, last, ed>>

ValidateContent ==
    /\ fn.step = 0
    /\ fn.kind = "content"
    /\ fn' = [fn EXCEPT !.step = 1, !.out = validatePromptContent(fn.in)]
    /\ UNCHANGED <<store, seq, last, ed>>

NextValidate == ValidateName \/ ValidateContent

SpecValidate == InitValidate /\ [][NextValidate]_vars

\* the length of s without the whitespace around it, counted on positions
TrimmedLen(s) ==
    IF \A i \in 1..Len(s) : IsSpace(s[i]) THEN 0
    ELSE LET first == CHOOSE i \in 1..Len(s) :
                        ~IsSpace(s[i]) /\ \A j \in 1..(i - 1) : IsSpace(s[j])
             final == CHOOSE i \in 1..Len(s) :
                        ~IsSpace(s[i]) /\ \A j \in (i + 1)..Len(s) : IsSpace(s[j])
         IN  final - first + 1

\* C15: validatePromptName accepts a name iff its length is from 1 to 255;
\* validatePromptContent accepts a content iff its length without the
\* surrounding whitespace is from 1 to 10,000.
C15_ValidatorBounds ==
    fn.step = 1 =>
        /\ fn.kind = "name" =>
            ((fn.out = "nil") <=> (1 <= Len(fn.in) /\ Len(fn.in) <= 255))
        /\ fn.kind = "content" =>
            ((fn.out = "nil") <=> (1 <= TrimmedLen(fn.in) /\ TrimmedLen(fn.in) <= 10000))

\* a content of 10,000 characters between whitespace is accepted
C15_Witness ==
    /\ fn.step = 1
    /\ fn.kind = "content"
    /\ fn.in = <<" ">> \o Repeat("x", MaxPromptContentLen) \o <<"\n", "\t">>
    /\ fn.out = "nil"

\* a name of 256 characters is rejected
C15_WitnessName ==
    /\ fn.step = 1
    /\ fn.kind = "name"
    /\ Len(fn.in) = MaxPromptNameLen + 1
    /\ fn.out = "prompt name too long"

(***************************************************************************)
(* The commands on names and contents at the limits: records are added     *)
(* with the external editor, imported from a file and edited in both       *)
(* editors.                                                                *)
(***************************************************************************)
MaxOver == 1        \* characters past the content limit a session is let grow a text to

FullName == Repeat("p", MaxPromptNameLen)
LongName == Repeat("p", MaxPromptNameLen + 1)
LimitNames == {FullName, LongName}

FullContent == Repeat("x", MaxPromptContentLen)

\* the users of the limits: they end the terminal editor at once or after one
\* key, and save texts at and past the limit in the external editor
LimitUsers(useExternalEditor) ==
    IF useExternalEditor
    THEN {User("keeps", <<>>, <<>>), User("saved", <<>>, FullContent),
          User("saved", <<>>, <<" ">> \o FullContent \o <<"\n">>),
          User("saved", <<>>, FullContent \o <<"x">>)}
    ELSE {User("tui", <<KeyCtrlD>>, <<>>), User("tui", <<KeyRune(" "), KeyCtrlD>>, <<>>),
          User("tui", <<KeyEnter, KeyAltEnter>>, <<>>),
          User("tui", <<KeyRune("x"), KeyCtrlD>>, <<>>), User("noTerminal", <<>>, <<>>)}

\* the session grows a text that is at the limit already, and not far past it
FitsLimit(initialContent, user) ==
    LET grown == Cardinality({i \in DOMAIN user.msgs : Grows(user.msgs[i])})
    IN  grown > 0 =>
            /\ Len(initialContent) >= MaxPromptContentLen
            /\ Len(initialContent) + grown <= MaxPromptContentLen + MaxOver

\* p add NAME [-e]
AddLimit ==
    /\ last = Idle
    /\ seq < MaxIds
    /\ \E name \in LimitNames, ext \in BOOLEAN :
        \E user \in LimitUsers(ext) :
            /\ FitsLimit(<<>>, user)
            /\ LET r == AddCmd(store, seq, name, <<>>, ext, user)
               IN  /\ store' = r.store
                   /\ seq' = r.seq
                   /\ last' = [op |-> "add", name |-> name, tags |-> <<>>, ext |-> ext,
                               user |-> user, pre |-> store, r |-> r]
    /\ UNCHANGED <<ed, fn>>

\* p edit NAME [-e]
EditLimit ==
    /\ last = Idle
    /\ \E name \in LimitNames, ext \in BOOLEAN :
        \E user \in LimitUsers(ext) :
            /\ FitsLimit(GetPromptByName(store, name).p.prompt, user)
            /\ LET r == EditCmd(store, seq, name, FALSE, <<>>, ext, user)
               IN  /\ store' = r.store
                   /\ seq' = r.seq
                   /\ last' = [op |-> "edit", name |-> name, tagsChanged |-> FALSE,
                               tags |-> <<>>, ext |-> ext, user |-> user, pre |-> store,
                               r |-> r]
    /\ UNCHANGED <<ed, fn>>

\* p import FILE with a file of one entry under a name past the limit
ImportLimit ==
    /\ last = Idle
    /\ seq < MaxIds
    /\ LET prompts == <<Entry(LongName, FullContent, <<>>)>>
           r == ImportCmd(store, seq, prompts)
       IN  /\ store' = r.store
           /\ seq' = r.seq
           /\ last' = [op |-> "import", prompts |-> prompts, pre |-> store, r |-> r]
    /\ UNCHANGED <<ed, fn>>

NextLimits == AddLimit \/ EditLimit \/ ImportLimit \/ Exit

SpecLimits == Init /\ [][NextLimits]_vars

\* the last command made no call that changes the table
NoWrite ==
    /\ store = last.pre
    /\ \A i \in DOMAIN last.r.calls : last.r.calls[i].f \notin {"AddPrompt", "UpdatePrompt"}

\* C14 as stated: with a name longer than 255, Add and Edit both fail with a
\* validation error, Add before any editor is launched, and neither writes to
\* the store.
C14_LongNameRejected ==
    (last.op \in {"add", "edit"} /\ Len(last.name) > 255) =>
        /\ last.r.err \in ValidationErrors
        /\ last.op = "add" => ~last.r.launched
        /\ NoWrite

\* C14, amended: with a name longer than 255, Add fails with a validation error
\* before any editor is launched; Edit fails with 'not found' before any editor
\* is launched when the store has no record of that name, and when it has one,
\* with the validation error once the editor has returned; neither writes to
\* the store.
C14_LongNameFails ==
    (last.op \in {"add", "edit"} /\ Len(last.name) > 255) =>
        /\ NoWrite
        /\ last.op = "add" => (last.r.err = "prompt name too long" /\ ~last.r.launched)
        /\ last.op = "edit" =>
            IF RowsNamed(last.pre, last.name) = {}
            THEN last.r.err = "not found" /\ ~last.r.launched
            ELSE /\ last.r.launched
                 /\ last.r.err \in EditorErrors \cup {"prompt name too long"}
                 /\ EditorReturned => last.r.err = "prompt name too long"

\* an Edit of an imported record under a name of 256 characters, with a changed
\* content back from the editor
C14_Witness ==
    /\ last.op = "edit"
    /\ Len(last.name) = MaxPromptNameLen + 1
    /\ last.r.err = "prompt name too long"
    /\ last.r.content = FullContent \o <<" ">>
    /\ \E r \in store : r.name = last.name /\ r.prompt = FullContent

\* an Add under a name of 256 characters
C14_WitnessAdd ==
    /\ last.op = "add"
    /\ Len(last.name) = MaxPromptNameLen + 1
    /\ last.r.err = "prompt name too long"
    /\ ~last.r.launched

\* C16: the content of every record that Add or Edit wrote has at most 10,000
\* characters as stored.
C16_StoredWithinLimit ==
    (last.op \in {"add", "edit"} /\ last.r.err = "nil" /\ last.r.calls # <<>>) =>
        \A r \in RowsNamed(store, last.name) : Len(r.prompt) <= 10000

\* the record the last command was asked to work on, as it was before the command
Existing == CHOOSE r \in RowsNamed(last.pre, last.name) : TRUE

\* some call of the last command on the name succeeded
CalledOk(l, fs, name) ==
    \E i \in DOMAIN l.r.calls :
        /\ l.r.calls[i].f \in fs
        /\ l.r.calls[i].name = name
        /\ l.r.calls[i].err = "nil"

\* C17: after an Add that inserted, the fetch of the name gives the content the
\* editor returned and the normalized tags; and a stored record changes or
\* goes only by an Edit, a Delete or an import that succeeded on its name.
C17_RoundTrip ==
    /\ []((last.op = "add" /\ CalledOk(last, {"AddPrompt"}, last.name)) =>
            LET g == GetPromptByName(store, last.name)
            IN  /\ g.err = "nil"
                /\ g.p.prompt = last.r.content
                /\ g.p.tags = normalizeTags(last.tags)
                /\ RowsNamed(store, last.name) = {g.p})
    /\ [][\A name \in Names :
            (RowsNamed(store, name) # {} /\ RowsNamed(store', name) # RowsNamed(store, name)) =>
                /\ last'.op \in {"edit", "delete", "import"}
                /\ CalledOk(last', {"UpdatePrompt", "DeletePrompt"}, name)]_vars

\* Add of p with the tags "b,a" and the content "x" from the editor: the fetch
\* gives "x" and "a,b"
C17_Witness ==
    /\ last.op = "add"
    /\ last.name = NameP
    /\ last.tags = <<"b", ",", "a">>
    /\ last.r.content = <<"x">>
    /\ GetPromptByName(store, NameP).p.prompt = <<"x">>
    /\ GetPromptByName(store, NameP).p.tags = <<"a", ",", "b">>

\* C18: Delete of a name the store does not hold fails with 'not found' and
\* leaves the store as it was; Delete of a held name removes that record and
\* no other, and the name is not found afterwards.
C18_Delete ==
    last.op = "delete" =>
        IF RowsNamed(last.pre, last.name) = {}
        THEN /\ last.r.err = "error deleting prompt"
             /\ last.r.calls = <<Call("DeletePrompt", last.name, "not found for deletion")>>
             /\ store = last.pre
        ELSE /\ last.r.err = "nil"
             /\ store = last.pre \ {Existing}
             /\ Cardinality(store) = Cardinality(last.pre) - 1
             /\ GetPromptByName(store, last.name).err = "not found"

\* Delete of p while q is stored too: q stays as it was
C18_Witness ==
    /\ last.op = "delete"
    /\ last.name = NameP
    /\ last.r.err = "nil"
    /\ \E r \in last.pre : r.name = NameP
    /\ \E r \in last.pre : r.name = NameQ /\ store = {r}

\* Delete of a name that is not stored, beside a stored record
C18_WitnessNotFound ==
    /\ last.op = "delete"
    /\ last.name = NameQ
    /\ last.r.err = "error deleting prompt"
    /\ store # {}
    /\ store = last.pre

\* C19: an Edit whose editor returns the stored content, with final tags (the
\* override if given, else the stored tags) equal to the stored tags, writes
\* nothing and returns no error.
C19_UnchangedEditNoWrite ==
    (/\ EditorReturned
     /\ last.op = "edit"
     /\ last.r.content = Existing.prompt
     /\ (IF last.tagsChanged THEN last.tags ELSE Existing.tags) = Existing.tags) =>
        /\ last.r.err = "nil"
        /\ NoWrite

\* C20: an Edit without a tags override whose editor returns a new valid
\* content replaces the content of the named record and nothing else: its
\* tags, name and id and every other record are as before.
C20_EditKeepsTags ==
    (/\ EditorReturned
     /\ last.op = "edit"
     /\ ~last.tagsChanged
     /\ last.r.content # Existing.prompt
     /\ validatePromptContent(last.r.content) = "nil") =>
        store = (last.pre \ {Existing}) \cup {[Existing EXCEPT !.prompt = last.r.content]}

\* the user's editor does not come to return a text
EditorFails(user) == user.kind \in {"noTerminal", "noEditor", "editorFails"}

\* C21: when the editor of an Add or an Edit fails (the terminal editor cannot
\* run, no external editor is found, the external editor exits with an error)
\* the command returns the editor's error and writes nothing; a command that
\* calls the store has had its editor return.
C21_EditorFailureNoWrite ==
    last.op \in {"add", "edit"} =>
        /\ (last.r.launched /\ EditorFails(last.user)) =>
            /\ last.r.err \in EditorErrors
            /\ NoWrite
        /\ (\E i \in DOMAIN last.r.calls : last.r.calls[i].f \in {"AddPrompt", "UpdatePrompt"}) =>
            /\ last.r.launched
            /\ ~EditorFails(last.user)

\* an Edit of a stored record whose external editor exits with an error
C21_Witness ==
    /\ last.op = "edit"
    /\ last.ext
    /\ last.user.kind = "editorFails"
    /\ last.tagsChanged
    /\ last.tags = <<"b", ",", "a">>
    /\ last.r.err = "editor command failed"
    /\ \E r \in store : r.name = last.name /\ r.tags = <<>>

\* an Add whose terminal editor cannot run
C21_WitnessAdd ==
    /\ last.op = "add"
    /\ ~last.ext
    /\ last.user.kind = "noTerminal"
    /\ last.r.err = "error getting prompt content"
    /\ store = last.pre

\* C22: an Edit of a name the store does not hold fails with 'not found'
\* before any editor is launched, and the store is as it was.
C22_EditNotFound ==
    (last.op = "edit" /\ RowsNamed(last.pre, last.name) = {}) =>
        /\ last.r.err = "not found"
        /\ ~last.r.launched
        /\ last.r.calls = <<>>
        /\ store = last.pre

\* an Edit of q, with a tags override, while only p is stored
C22_Witness ==
    /\ last.op = "edit"
    /\ last.name = NameQ
    /\ last.tagsChanged
    /\ last.r.err = "not found"
    /\ \E r \in store : r.name = NameP

\* C27: the add command prints 'Prompt added successfully!' only when a record
\* was inserted and the edit command prints 'Prompt edited successfully!' only
\* when a record was updated.
C27_SuccessOnlyOnWrite ==
    /\ (last.op = "add" /\ "Prompt added successfully!" \in Range(last.r.out)) =>
            /\ CalledOk(last, {"AddPrompt"}, last.name)
            /\ store # last.pre
    /\ (last.op = "edit" /\ "Prompt edited successfully!" \in Range(last.r.out)) =>
            CalledOk(last, {"UpdatePrompt"}, last.name)

\* the entry is one the import loop does not skip
Importable(e) == e.name # <<>> /\ e.prompt # <<>>

\* C28: import takes the entries in file order and counts each once; an entry
\* with an empty name or content makes no store call; and afterwards every
\* name with an importable entry has one record, with the content and tags of
\* the last such entry, while the other names are as before.
C28_ImportLastWins ==
    last.op = "import" =>
        LET prompts == last.prompts
            inserts == SelectSeq(last.r.calls, LAMBDA c : c.f = "AddPrompt")
            taken == SelectSeq(prompts, Importable)
        IN  /\ last.r.imported + last.r.skipped = Len(prompts)
            /\ last.r.imported = Len(taken)
            /\ Len(inserts) = Len(taken)
            /\ \A i \in DOMAIN taken : inserts[i].name = taken[i].name
            /\ \A name \in Names :
                LET idx == {i \in DOMAIN prompts : Importable(prompts[i]) /\ prompts[i].name = name}
                    final == CHOOSE i \in idx : \A j \in idx : j <= i
                IN  IF idx = {} THEN RowsNamed(store, name) = RowsNamed(last.pre, name)
                    ELSE /\ Cardinality(RowsNamed(store, name)) = 1
                         /\ \A r \in RowsNamed(store, name) :
                                /\ r.prompt = prompts[final].prompt
                                /\ r.tags = prompts[final].tags

\* a file with two entries named p is imported over a stored p: the record
\* holds the content and the tags of the second entry
C28_Witness ==
    /\ last.op = "import"
    /\ Len(last.prompts) = 2
    /\ last.r.imported = 2
    /\ \E r \in last.pre : r.name = NameP /\ r.prompt = <<"x">> /\ r.tags = <<"a", ",", "b">>
    /\ \E r \in store : r.name = NameP /\ r.prompt = <<"x", "x">> /\ r.tags = <<>>

\* a file whose entries have an empty name or an empty content
C28_WitnessSkipped ==
    /\ last.op = "import"
    /\ last.r.skipped = 2
    /\ last.r.calls = <<>>
    /\ store = last.pre
    /\ store # {}

\* C24: the ids of the records differ and are the ones the table gave out; a
\* record keeps its id and its name for as long as it is stored, an edit or an
\* import removes no record, and a new record gets an id never given before.
C24_IdsFixed ==
    /\ [](\A r1 \in store : 
            /\ 1 <= r1.id /\ r1.id <= seq
            /\ \A r2 \in store : r1.id = r2.id => r1 = r2)
    /\ [][/\ \A r \in store : \A n \in store' :
                (n.id = r.id) <=> (n.name = r.name)
          /\ \A n \in store' : (\A r \in store : r.id # n.id) => n.id > seq
          /\ last'.op \in {"edit", "import"} =>
                \A r \in store : \E n \in store' : n.id = r.id /\ n.name = r.name
         ]_vars

\* an import rewrote the record p, which still has the id 1 beside the id 2
C24_Witness ==
    /\ last.op = "import"
    /\ CalledOk(last, {"UpdatePrompt"}, NameP)
    /\ \E r \in store : r.name = NameP /\ r.id = 1 /\ r \notin last.pre
    /\ \E r \in store : r.id = 2

\* the records of a list are in ascending order of their names, none twice
AscendingNames(l) ==
    \A i \in 1..(Len(l) - 1) : StrLess(l[i].name, l[i + 1].name)

\* C29: List without a filter returns every stored record once, in ascending
\* order of the names; List with a filter returns stored records only, none
\* twice, in that same order.
C29_ListOrdered ==
    last.op = "list" =>
        /\ AscendingNames(last.result)
        /\ Range(last.result) \subseteq store
        /\ last.filter = <<>> =>
            /\ Range(last.result) = store
            /\ Len(last.result) = Cardinality(store)

\* q was stored before p, and the list without a filter gives p before q
C29_Witness ==
    /\ last.op = "list"
    /\ last.filter = <<>>
    /\ Len(last.result) = 2
    /\ last.result[1].name = NameP
    /\ last.result[1].id = 2
    /\ last.result[2].name = NameQ
    /\ last.result[2].id = 1

\* the same two records, both tagged, under a filter that keeps both
C29_WitnessFiltered ==
    /\ last.op = "list"
    /\ last.filter = FilterBC
    /\ Len(last.result) = 2
    /\ last.result[1].name = NameP
    /\ last.result[1].id = 2

(***************************************************************************)
(* Two editor sessions started with the same content and fed the same      *)
(* events of the terminal, each at its own pace.                           *)
(***************************************************************************)
MaxEvents == 3      \* longest sequence of events the two sessions are fed

ReplayMsgs ==
    {KeyEsc, KeyCtrlD, KeyAltEnter, KeyEnter, KeyRune("x"), KeyMsg("KeyBackspace", FALSE, ""),
     KeyMsg("KeyLeft", FALSE, ""), OtherMsg}

ReplayContents == {<<>>, <<"x">>}

\* a session of the program: its model, the number of events it has taken
\* and what RunTUIEditor returned
Session(initialContent) ==
    [pc |-> "active", m |-> initialEditorModel(initialContent), next |-> 0,
     result |-> [value |-> <<>>, err |-> "none"]]

InitReplay ==
    /\ store = {}
    /\ seq = 0
    /\ last = [op |-> "none"]
    /\ fn = [step |-> 0]
    /\ \E c \in ReplayContents, events \in StringsUpTo(ReplayMsgs, MaxEvents) :
        ed = [pc |-> "replay", initial |-> c, events |-> events,
              s |-> <<Session(c), Session(c)>>]

\* the program of session i hands the next event of the terminal to Update
ReplayMsg(i) ==
    /\ ed.s[i].pc = "active"
    /\ ed.s[i].next < Len(ed.events)
    /\ LET r == Update(ed.s[i].m, ed.events[ed.s[i].next + 1])
       IN  ed' = [ed EXCEPT !.s[i].m = r.m, !.s[i].next = ed.s[i].next + 1,
                            !.s[i].pc = IF r.cmd = "Quit" THEN "quit" ELSE "active"]
    /\ UNCHANGED <<store, seq, last, fn>>

\* the program of session i has ended: RunTUIEditor returns
ReplayReturn(i) ==
    /\ ed.s[i].pc = "quit"
    /\ ed' = [ed EXCEPT !.s[i].pc = "returned", !.s[i].result = EditorResult(ed.s[i].m)]
    /\ UNCHANGED <<store, seq, last, fn>>

NextReplay == \E i \in 1..2 : ReplayMsg(i) \/ ReplayReturn(i)

SpecReplay == InitReplay /\ [][NextReplay]_vars

\* the textarea after the messages msgs, each applied once, in their order
RECURSIVE Typed(_, _)
Typed(ta, msgs) ==
    IF msgs = <<>> THEN ta ELSE Typed(taUpdate(ta, Head(msgs)), Tail(msgs))

\* the place of the first terminating key among the events, or one past them
Stop(events) ==
    IF \A k \in DOMAIN events : events[k] \notin CancelKeys \cup SubmitKeys
    THEN Len(events) + 1
    ELSE CHOOSE k \in DOMAIN events :
            /\ events[k] \in CancelKeys \cup SubmitKeys
            /\ \A j \in 1..(k - 1) : events[j] \notin CancelKeys \cup SubmitKeys

C25_WitnessApart ==
    /\ ed.pc = "replay"
    /\ ed.events = <<KeyRune("x"), KeyMsg("KeyLeft", FALSE, ""), KeyEsc>>
    /\ ed.s[1].pc = "returned"
    /\ ed.s[2].pc = "active"
    /\ ed.s[2].next = 1

(***************************************************************************)
(* An edit command in its steps (fetch, editor, write) while other         *)
(* invocations of p insert and delete records in the same database.        *)
(***************************************************************************)
RaceUsers(useExternalEditor) ==
    IF useExternalEditor
    THEN {User("editorFails", <<>>, <<>>), User("saved", <<>>, <<" ", "x", "\n">>)}
    ELSE {User("tui", <<KeyCtrlD>>, <<>>), User("tui", <<KeyRune("x"), KeyCtrlD>>, <<>>),
          User("tui", <<KeyMsg("KeyBackspace", FALSE, ""), KeyAltEnter>>, <<>>)}

\* no edit command is running
NoEdit == [pc |-> "idle"]

InitRace ==
    /\ store = {}
    /\ seq = 0
    /\ last = Idle
    /\ ed = NoEdit
    /\ fn = [step |-> 0]

\* another invocation: p import FILE with one entry under a name not stored
OtherImport ==
    /\ seq < MaxIds
    /\ \E name \in {NameP, NameQ}, tags \in {<<>>, TagsAB} :
        /\ RowsNamed(store, name) = {}
        /\ LET r == ImportCmd(store, seq, <<Entry(name, <<"x">>, tags)>>)
           IN  /\ store' = r.store
               /\ seq' = r.seq
    /\ UNCHANGED <<last, ed, fn>>

\* another invocation: p delete NAME
OtherDelete ==
    /\ \E name \in {NameP, NameQ} :
        LET r == DeleteCmd(store, seq, name)
        IN  /\ r.err = "nil"
            /\ store' = r.store
    /\ UNCHANGED <<seq, last, ed, fn>>

\* p edit NAME [-t TAGS]: the command fetches the prompt and settles the tags
EditFetch ==
    /\ ed.pc = "idle"
    /\ \E name \in {NameP, NameQ}, tagsChanged \in BOOLEAN :
        LET g == GetPromptByName(store, name)
            existingPrompt == g.p
            finalTags == IF tagsChanged THEN <<"b", ",", "a">> ELSE existingPrompt.tags
        IN  ed' = IF g.err # "nil"
                  THEN [pc |-> "done", name |-> name, wrote |-> FALSE,
                        r |-> Done(g.err, store, seq, FALSE, <<>>, <<>>, <<>>)]
                  ELSE [pc |-> "fetched", name |-> name, existingPrompt |-> existingPrompt,
                        finalTags |-> finalTags]
    /\ UNCHANGED <<store, seq, last, fn>>

\* the command runs the editor on the content it fetched
EditEditor ==
    /\ ed.pc = "fetched"
    /\ \E ext \in BOOLEAN :
        \E user \in RaceUsers(ext) :
            /\ Fits(ed.existingPrompt.prompt, user)
            /\ LET e == EditorEdit(ext, ed.existingPrompt.prompt, user)
               IN  ed' = IF e.err # "nil"
                         THEN [pc |-> "done", name |-> ed.name, wrote |-> FALSE,
                               r |-> Done(e.err, store, seq, TRUE, <<>>, <<>>, <<>>)]
                         ELSE [pc |-> "edited", name |-> ed.name,
                               existingPrompt |-> ed.existingPrompt,
                               finalTags |-> ed.finalTags, content |-> e.value]
    /\ UNCHANGED <<store, seq, last, fn>>

\* the command calls EditPrompt with the prompt it fetched
EditWrite ==
    /\ ed.pc = "edited"
    /\ LET r == AppEditPrompt(store, seq, ed.existingPrompt, ed.content, ed.finalTags)
       IN  /\ store' = r.store
           /\ ed' = [pc |-> "done", name |-> ed.name, wrote |-> TRUE, r |-> r,
                     existingPrompt |-> ed.existingPrompt, finalTags |-> ed.finalTags,
                     gone |-> RowsNamed(store, ed.name) = {}]
    /\ UNCHANGED <<seq, last, fn>>

\* the process of the edit command exits
EditExit ==
    /\ ed.pc = "done"
    /\ ed' = NoEdit
    /\ UNCHANGED <<store, seq, last, fn>>

NextRace == OtherImport \/ OtherDelete \/ EditFetch \/ EditEditor \/ EditWrite \/ EditExit

SpecRace == InitRace /\ [][NextRace]_vars

\* C26: when the record was deleted between the fetch and the write of an
\* Edit, the write creates no record of that name and changes no other; and
\* an Edit that comes to its update (the content or the tags differ from the
\* fetched ones and the content is valid) fails with the store's 'not found'.
C26_StaleEditFails ==
    [][(ed.pc = "edited" /\ ed'.pc = "done" /\ RowsNamed(store, ed.name) = {}) =>
            /\ store' = store
            /\ RowsNamed(store', ed.name) = {}
            /\ (/\ TrimSpace(ed.content) # <<>>
                /\ \/ ed.content # ed.existingPrompt.prompt
                   \/ normalizeTags(ed.finalTags) # ed.existingPrompt.tags) =>
                    /\ ed'.r.err = "error editing prompt"
                    /\ ed'.r.calls = <<Call("UpdatePrompt", ed.name, "not found for update")>>
      ]_vars

\* the Edit of p, fetched with the content "x", wrote "xx" after p was deleted:
\* it failed, and only q is stored
C26_Witness ==
    /\ ed.pc = "done"
    /\ ed.wrote
    /\ ed.gone
    /\ ed.name = NameP
    /\ ed.existingPrompt.prompt = <<"x">>
    /\ ed.r.content = <<"x", "x">>
    /\ ed.r.err = "error editing prompt"
    /\ \E r \in store : r.name = NameQ
    /\ RowsNamed(store, NameP) = {}

(***************************************************************************)
(* LaunchExternalEditor in its steps, with the temporary file it creates.  *)
(* Every system call of the function can fail; the editor program can save *)
(* a text, exit with an error, or take the file away.                      *)
(***************************************************************************)
\* the fallback editors, in the order they are looked up
defaultEditors == <<"vim", "nano", "vi">>

\* the editor program: $EDITOR, or the first fallback editor found on the PATH
ResolveEditor(env, onPath) ==
    IF env # "" THEN env
    ELSE IF \E i \in 1..Len(defaultEditors) : defaultEditors[i] \in onPath
         THEN defaultEditors[CHOOSE i \in 1..Len(defaultEditors) :
                                /\ defaultEditors[i] \in onPath
                                /\ \A j \in 1..(i - 1) : defaultEditors[j] \notin onPath]
         ELSE ""

\* the texts an editor program leaves in the file
SavedTexts == {<<>>, <<"x">>, <<" ", "x", "\n">>}

\* a return of the function that removes the temporary file only on success
ReturnKeepsFileOnError(e, value, err) ==
    [e EXCEPT !.pc = "returned", !.value = value, !.err = err,
              !.exists = IF e.deferred /\ err = "nil" THEN FALSE ELSE e.exists]

\* a return of the function: the deferred os.Remove runs when it was registered
Return(e, value, err) ==
    [e EXCEPT !.pc = "returned", !.value = value, !.err = err,
              !.exists = IF e.deferred THEN FALSE ELSE e.exists]

InitExternal ==
    /\ store = {}
    /\ seq = 0
    /\ last = Idle
    /\ fn = [step |-> 0]
    /\ \E initialContent \in {<<>>, <<"x">>}, env \in {"", "emacs"},
          onPath \in SUBSET {"vim", "nano", "vi"} :
        ed = [pc |-> "resolve", initialContent |-> initialContent, env |-> env,
              onPath |-> onPath, editor |-> "", created |-> FALSE, exists |-> FALSE,
              deferred |-> FALSE, file |-> <<>>, value |-> <<>>, err |-> "nil"]

\* os.Getenv and the exec.LookPath loop; the return when no editor is found
ExtResolve ==
    /\ ed.pc = "resolve"
    /\ LET editor == ResolveEditor(ed.env, ed.onPath)
       IN  ed' = IF editor = ""
                 THEN Return(ed, <<>>, "no editor found")
                 ELSE [ed EXCEPT !.pc = "create", !.editor = editor]
    /\ UNCHANGED <<store, seq, last, fn>>

\* os.CreateTemp and the registration of the deferred os.Remove
ExtCreateTemp ==
    /\ ed.pc = "create"
    /\ \E ok \in BOOLEAN :
        ed' = IF ~ok
              THEN Return(ed, <<>>, "could not create temporary file")
              ELSE [ed EXCEPT !.pc = "write", !.created = TRUE, !.exists = TRUE,
                              !.deferred = TRUE]
    /\ UNCHANGED <<store, seq, last, fn>>

\* tmpfile.WriteString: a failed write may have written a part
ExtWrite ==
    /\ ed.pc = "write"
    /\ \E n \in 0..Len(ed.initialContent), ok \in BOOLEAN :
        /\ ok => n = Len(ed.initialContent)
        /\ ed' = IF ~ok
                 THEN Return([ed EXCEPT !.file = SubSeq(ed.initialContent, 1, n)], <<>>,
                             "could not write to temporary file")
                 ELSE [ed EXCEPT !.pc = "close", !.file = ed.initialContent]
    /\ UNCHANGED <<store, seq, last, fn>>

\* tmpfile.Close
ExtClose ==
    /\ ed.pc = "close"
    /\ \E ok \in BOOLEAN :
        ed' = IF ~ok
              THEN Return(ed, <<>>, "could not close temporary file")
              ELSE [ed EXCEPT !.pc = "run"]
    /\ UNCHANGED <<store, seq, last, fn>>

\* cmd.Run: the editor program saves a text or leaves the file as it is, and
\* exits with or without an error; or it takes the file away
ExtRun ==
    /\ ed.pc = "run"
    /\ \E text \in SavedTexts \cup {ed.file}, ok \in BOOLEAN, keeps \in BOOLEAN :
        LET after == [ed EXCEPT !.file = IF keeps THEN text ELSE <<>>, !.exists = keeps]
        IN  ed' = IF ~ok
                  THEN Return(after, <<>>, "editor command failed")
                  ELSE [after EXCEPT !.pc = "read"]
    /\ UNCHANGED <<store, seq, last, fn>>

\* os.ReadFile and the successful return
ExtRead ==
    /\ ed.pc = "read"
    /\ \E ok \in BOOLEAN :
        /\ ok => ed.exists
        /\ ed' = IF ~ok
                 THEN Return(ed, <<>>, "could not read edited content from temporary file")
                 ELSE Return(ed, TrimSpace(ed.file), "nil")
    /\ UNCHANGED <<store, seq, last, fn>>

NextExternal == ExtResolve \/ ExtCreateTemp \/ ExtWrite \/ ExtClose \/ ExtRun \/ ExtRead

SpecExternal == InitExternal /\ [][NextExternal]_vars

\* the errors LaunchExternalEditor returns after the temporary file was created
AfterCreation ==
    {"could not write to temporary file", "could not close temporary file",
     "editor command failed", "could not read edited content from temporary file", "nil"}

C23_WitnessNoEditor ==
    /\ ed.pc = "returned"
    /\ ed.err = "no editor found"
    /\ ~ed.created

(***************************************************************************)
(* runMigrations, run by the processes that open the same database file.   *)
(* Every statement is a transaction of its own and can fail.               *)
(***************************************************************************)
\* the number of runMigrations runs begun
MaxRuns == 3

\* the processes that can have the database open at the same time
Procs == 1..2

\* the versions runMigrations applies
Migrations == <<1>>

\* SELECT COUNT(*) FROM schema_migrations WHERE version = ?
CountVersion(rows, version) == Cardinality({k \in 1..Len(rows) : rows[k] = version})

\* a test that takes every migration as not applied
AlreadyAppliedNever(count) == FALSE

\* the test of applyMigration for a migration that was applied
AlreadyApplied(count) == count > 0

\* a process that is not in runMigrations
NoRun == [pc |-> "idle", seen |-> 0, did |-> {}]

InitMigrate ==
    /\ store = {}
    /\ seq = 0
    /\ last = Idle
    /\ fn = [step |-> 0]
    /\ ed = [migrationsTable |-> FALSE, rows |-> <<>>, promptsTable |-> FALSE,
             executed |-> 0, begun |-> 0, completed |-> 0, applied |-> 0, failed |-> 0,
             run |-> [i \in Procs |-> NoRun]]

\* the run of process i returns the error of a failed statement
Failed(i) == [ed EXCEPT !.run[i].pc = "failed", !.failed = @ + 1]

\* the run of process i returns nil
Completed(e, i) ==
    [e EXCEPT !.run[i].pc = "returned", !.completed = @ + 1,
              !.applied = @ + (IF "sql" \in e.run[i].did THEN 1 ELSE 0)]

\* InitDB calls runMigrations
MigBegin(i) ==
    /\ ed.run[i].pc \in {"idle", "returned", "failed"}
    /\ ed.begun < MaxRuns
    /\ ed' = [ed EXCEPT !.run[i] = [NoRun EXCEPT !.pc = "create"], !.begun = @ + 1]
    /\ UNCHANGED <<store, seq, last, fn>>

\* CREATE TABLE IF NOT EXISTS schema_migrations
MigCreateTable(i) ==
    /\ ed.run[i].pc = "create"
    /\ \E ok \in BOOLEAN :
        ed' = IF ~ok THEN Failed(i)
              ELSE [ed EXCEPT !.migrationsTable = TRUE, !.run[i].pc = "check"]
    /\ UNCHANGED <<store, seq, last, fn>>

\* applyMigration: the count of the version, and the return when it is applied
MigCheck(i) ==
    /\ ed.run[i].pc = "check"
    /\ \E ok \in BOOLEAN :
        LET count == CountVersion(ed.rows, Migrations[1])
            seen == [ed EXCEPT !.run[i].seen = count]
        IN  ed' = IF ~ok THEN Failed(i)
                  ELSE IF AlreadyApplied(count) THEN Completed(seen, i)
                  ELSE [seen EXCEPT !.run[i].pc = "exec"]
    /\ UNCHANGED <<store, seq, last, fn>>

\* applyMigration: the migration SQL, CREATE TABLE IF NOT EXISTS prompts
MigExec(i) ==
    /\ ed.run[i].pc = "exec"
    /\ \E ok \in BOOLEAN :
        ed' = IF ~ok THEN Failed(i)
              ELSE [ed EXCEPT !.promptsTable = TRUE, !.executed = @ + 1,
                              !.run[i].did = @ \cup {"sql"}, !.run[i].pc = "insert"]
    /\ UNCHANGED <<store, seq, last, fn>>

\* applyMigration: INSERT INTO schema_migrations; version is the primary key
MigInsert(i) ==
    /\ ed.run[i].pc = "insert"
    /\ \E ok \in BOOLEAN :
        ed' = IF ~ok \/ CountVersion(ed.rows, Migrations[1]) > 0 THEN Failed(i)
              ELSE Completed([ed EXCEPT !.rows = Append(@, Migrations[1]),
                                        !.run[i].did = @ \cup {"insert"}], i)
    /\ UNCHANGED <<store, seq, last, fn>>

NextMigrate ==
    \E i \in Procs :
        MigBegin(i) \/ MigCreateTable(i) \/ MigCheck(i) \/ MigExec(i) \/ MigInsert(i)

SpecMigrate == InitMigrate /\ [][NextMigrate]_vars

\* C30: once a run of runMigrations has completed, the version is recorded
\* exactly once and the completed runs have executed its SQL exactly once; when
\* no run has failed or is under way, that is every execution of the SQL there
\* has been; and a run that found the version recorded has executed neither
\* the migration SQL nor the insert.
C30_MigrateOnce ==
    /\ \A i \in Procs : ed.run[i].seen > 0 => ed.run[i].did = {}
    /\ ed.completed >= 1 =>
        /\ CountVersion(ed.rows, Migrations[1]) = 1
        /\ ed.applied = 1
        /\ ed.promptsTable
        /\ (ed.failed = 0 /\ \A i \in Procs : ed.run[i].pc \in {"idle", "returned"}) =>
                ed.executed = 1

\* three runs have completed, by two processes: the first applied the
\* migration, the later ones found it recorded and did nothing
C30_Witness ==
    /\ ed.completed = MaxRuns
    /\ ed.failed = 0
    /\ ed.executed = 1
    /\ ed.rows = <<1>>
    /\ ed.run[1].pc = "returned" /\ ed.run[1].seen = 1 /\ ed.run[1].did = {}
    /\ ed.run[2].pc = "returned" /\ ed.run[2].seen = 1 /\ ed.run[2].did = {}

====
